---- MODULE Spec2Model ----
(***************************************************************************)
(* EasyWriter (src/src/TypeWriter.ts): a queue of (text, delay)            *)
(* instructions built by write/erase/eraseLast/eraseAll and played back    *)
(* onto an element's innerText by setTimeout / setInterval callbacks.      *)
(* Real time is abstracted: any pending timer may fire next.               *)
(***************************************************************************)
EXTENDS Integers, Sequences, FiniteSets, Bags, TLC

\* ------------------------------------------------------------------ bounds
\* instructions in the queue when public calls arrive during playback
MaxWrites == 2
\* instructions in the queue when the script only builds and starts
MaxScript == 3
\* public calls that raise an error or are made after the first start()
MaxStrayCalls == 1
\* loop restarts
MaxLaps == 1

\* ------------------------------------------------------------------ inputs
\* the erase marker of erase(): '\r'
CR == "\r"

\* (text, delay) arguments handed to write()
WriteArgs == { [text |-> <<"H", "i">>, delay |-> 0],
               [text |-> <<"a", "b", "c">>, delay |-> 5] }

\* (count, delay) arguments handed to erase(); the type of count is number
EraseArgs == { [count |-> 0, delay |-> 0], [count |-> 2, delay |-> 0],
               [count |-> -1, delay |-> 0] }

\* delays handed to eraseLast() and eraseAll()
EraseDelays == {5}

\* text the element holds when the EasyWriter is constructed
InitialTexts == { <<>>, <<"h", "e", "l", "l", "o">> }

\* loopFrom values of the configuration (some lie outside the queue)
LoopFroms == 0..MaxWrites

VARIABLES
    config,              \* this.config: loop, loopFrom, hideCursorOnEnd
    innerText,           \* element.innerText
    classList,           \* element.classList
    writes,              \* this._writes
    eraseNum,            \* this._eraseNum
    charsNum,            \* this._charsNum
    typingStarted,       \* this._typingStarted
    currentWritesIndex,  \* this._currentWritesIndex (0-based, as in the code)
    timers,              \* bag of pending setTimeout / active setInterval callbacks
    outcome,             \* the last public call or timer callback and the error it raised
    origin,              \* history: the public method that appended each instruction
    playLog,             \* history: queue index of every instruction #type has begun
    starts,              \* history: number of public start() calls
    strayCalls,          \* history: number of public calls that raised an error or
                         \*          were made after the first start()
    laps,                \* history: number of loop restarts
    hideCursorCalls,     \* history: number of hideCursor() calls
    failedErased         \* history: sum of the counts of the erase() calls that raised

vars == << config, innerText, classList, writes, eraseNum, charsNum, typingStarted,
           currentWritesIndex, timers, outcome, origin, playLog, starts, strayCalls,
           laps, hideCursorCalls, failedErased >>

\* ------------------------------------------------------------------ helpers
\* '\r'.repeat(count), for count >= 0
Repeat(c, n) == [i \in 1..n |-> c]

\* this._writes[i] with a 0-based index: undefined outside the queue
HasInstr(ws, i) == i \in 0..(Len(ws) - 1)

InstrAt(ws, i) == ws[i + 1]

\* innerText.slice(0, -1)
SliceLast(s) == IF Len(s) = 0 THEN s ELSE SubSeq(s, 1, Len(s) - 1)

\* faulty variant: clearInterval is forgotten and a fired timer stays pending
Cleared_Forgotten(ts, t) == ts

\* clearInterval / a fired timeout: the timer leaves the pending timers
Cleared(ts, t) == ts (-) SetToBag({t})

\* setTimeout / setInterval: the timer joins the pending timers
Scheduled(ts, t) == ts (+) SetToBag({t})

\* the fields of `this` the queue-building methods read and write
This == [ writes |-> writes, eraseNum |-> eraseNum, charsNum |-> charsNum,
          typingStarted |-> typingStarted, error |-> "none" ]

\* ------------------------------------------------------------------ methods
\* write(text, delay)
write(w, text, delay) ==
    IF w.typingStarted
    THEN [w EXCEPT !.error = "AlreadyStarted"]
    ELSE [w EXCEPT !.charsNum = @ + Len(text),
                   !.writes = Append(@, [text |-> text, delay |-> delay])]

\* faulty variant: erase() does not touch the character count itself
erase_NoDecrement(w, count, delay) ==
    LET w1 == [w EXCEPT !.eraseNum = @ + count]
    IN  IF count < 0
        THEN [w1 EXCEPT !.error = "RangeError"]
        ELSE write(w1, Repeat(CR, count), delay)

\* erase(count, delay): the counters move before write() is reached, and
\* '\r'.repeat(count) raises a RangeError for a negative count
erase(w, count, delay) ==
    LET w1 == [w EXCEPT !.eraseNum = @ + count, !.charsNum = @ - count]
    IN  IF count < 0
        THEN [w1 EXCEPT !.error = "RangeError"]
        ELSE write(w1, Repeat(CR, count), delay)

\* faulty variant: eraseLast() does not look for a last instruction
eraseLast_NoGuard(w, delay) ==
    erase(w, IF Len(w.writes) = 0 THEN 0 ELSE Len(w.writes[Len(w.writes)].text), delay)

\* eraseLast(delay)
eraseLast(w, delay) ==
    IF Len(w.writes) = 0
    THEN [w EXCEPT !.error = "NoPriorWrite"]
    ELSE erase(w, Len(w.writes[Len(w.writes)].text), delay)

\* eraseAll(delay)
eraseAll(w, delay) ==
    LET textElementLength == Len(innerText)
    IN  erase(w, textElementLength + w.charsNum - w.eraseNum, delay)

\* a pending setTimeout(() => this.#type(el.text), el.delay || 0)
Timeout(ws, i) ==
    [ kind |-> "timeout", text |-> InstrAt(ws, i).text, delay |-> InstrAt(ws, i).delay,
      index |-> 0, instr |-> i, base |-> <<>> ]

\* the setInterval of #type(text), with its local `index`
Interval(t, b) ==
    [ kind |-> "interval", text |-> t.text, delay |-> t.delay,
      index |-> 0, instr |-> t.instr, base |-> b ]

\* faulty variant: start() always schedules the first instruction of the queue
start_FromZero(ws, idx, ts) ==
    IF Len(ws) = 0
    THEN [ timers |-> ts, error |-> "none" ]
    ELSE [ timers |-> Scheduled(ts, Timeout(ws, 0)), error |-> "none" ]

\* faulty variant: start() begins again at instruction 0 when the cursor index
\* has left the queue
start_Rewind(ws, idx, ts) ==
    IF Len(ws) = 0
    THEN [ timers |-> ts, error |-> "none" ]
    ELSE [ timers |-> Scheduled(ts, Timeout(ws, IF HasInstr(ws, idx) THEN idx ELSE 0)),
           error |-> "none" ]

\* faulty variant: start() does not return early on an empty queue
start_NoEmptyCheck(ws, idx, ts) ==
    IF ~HasInstr(ws, idx)
    THEN [ timers |-> ts, error |-> "TypeError" ]
    ELSE [ timers |-> Scheduled(ts, Timeout(ws, idx)), error |-> "none" ]

\* start(): the timers it leaves pending and the error it raises, given the
\* cursor index idx
start(ws, idx, ts) ==
    IF Len(ws) = 0
    THEN [ timers |-> ts, error |-> "none" ]
    ELSE IF ~HasInstr(ws, idx)
         THEN [ timers |-> ts, error |-> "TypeError" ]
         ELSE [ timers |-> Scheduled(ts, Timeout(ws, idx)), error |-> "none" ]

\* faulty variant: showing the cursor again leaves the class on
toggleCursor_NeverOff(cl, show) == IF show THEN cl ELSE cl \cup {"typing"}

\* faulty variant: the class is toggled with `show` itself
toggleCursor_Inverted(cl, show) == IF show THEN cl \cup {"typing"} ELSE cl \ {"typing"}

\* #toggleCursor(show): classList.toggle('typing', !show)
toggleCursor(cl, show) == IF show THEN cl \ {"typing"} ELSE cl \cup {"typing"}

\* faulty variant: hide-cursor-on-end is tried before loop
endOfInstruction_HideBeforeLoop(ws, next, cfg) ==
    IF HasInstr(ws, next) THEN "next"
    ELSE IF cfg.hideCursorOnEnd THEN "hide"
    ELSE IF cfg.loop THEN "loop"
    ELSE "idle"

\* faulty variant: hide-cursor-on-end is tried before the next instruction
endOfInstruction_HideFirst(ws, next, cfg) ==
    IF cfg.hideCursorOnEnd /\ ~cfg.loop THEN "hide"
    ELSE IF HasInstr(ws, next) THEN "next"
    ELSE IF cfg.loop THEN "loop"
    ELSE "idle"

\* the branch the finished ticker takes, next being the incremented cursor index
endOfInstruction(ws, next, cfg) ==
    IF HasInstr(ws, next) THEN "next"
    ELSE IF cfg.loop THEN "loop"
    ELSE IF cfg.hideCursorOnEnd THEN "hide"
    ELSE "idle"

\* hideCursor(): classList.add('hide-cursor')
hideCursor(cl) == cl \cup {"hide-cursor"}

\* faulty variant: the erase marker is appended like any other character
typeChar_AppendOnly(s, char) == Append(s, char)

\* one character of the ticker applied to the visible text
typeChar(s, char) == IF char = CR THEN SliceLast(s) ELSE Append(s, char)


\* ------------------------------------------------------------------ initial state
Init ==
    /\ config \in { c \in [ loop : BOOLEAN, loopFrom : LoopFroms, hideCursorOnEnd : BOOLEAN ] :
                        ~c.loop => c.loopFrom = 0 }
    /\ innerText \in InitialTexts
    /\ classList = {}
    /\ writes = <<>>
    /\ eraseNum = 0
    /\ charsNum = 0
    /\ typingStarted = FALSE
    /\ currentWritesIndex = 0
    /\ timers = EmptyBag
    /\ outcome = [ op |-> "new", error |-> "none" ]
    /\ origin = <<>>
    /\ playLog = <<>>
    /\ starts = 0
    /\ strayCalls = 0
    /\ laps = 0
    /\ hideCursorCalls = 0
    /\ failedErased = 0

\* ------------------------------------------------------------------ public calls
\* the state a queue-building call leaves: w is what the method returned
Called(op, w) ==
    /\ (typingStarted \/ w.error # "none") => strayCalls < MaxStrayCalls
    /\ writes' = w.writes
    /\ eraseNum' = w.eraseNum
    /\ charsNum' = w.charsNum
    /\ outcome' = [ op |-> op, error |-> w.error ]
    /\ origin' = IF Len(w.writes) > Len(writes) THEN Append(origin, op) ELSE origin
    /\ strayCalls' = IF typingStarted \/ w.error # "none" THEN strayCalls + 1 ELSE strayCalls
    /\ failedErased' = failedErased + (IF w.error # "none" THEN w.eraseNum - eraseNum ELSE 0)
    /\ UNCHANGED << config, innerText, classList, typingStarted, currentWritesIndex,
                    timers, playLog, starts, laps, hideCursorCalls >>

Write == \E a \in WriteArgs : Called("write", write(This, a.text, a.delay))

Erase == \E a \in EraseArgs : Called("erase", erase(This, a.count, a.delay))

EraseLast == \E delay \in EraseDelays : Called("eraseLast", eraseLast(This, delay))

EraseAll == \E delay \in EraseDelays : Called("eraseAll", eraseAll(This, delay))

\* a public start() call
StartCall ==
    LET r == start(writes, currentWritesIndex, timers)
    IN  /\ (typingStarted \/ r.error # "none") => strayCalls < MaxStrayCalls
        /\ typingStarted' = TRUE
        /\ timers' = r.timers
        /\ outcome' = [ op |-> "start", error |-> r.error ]
        /\ starts' = starts + 1
        /\ strayCalls' = IF typingStarted \/ r.error # "none"
                         THEN strayCalls + 1 ELSE strayCalls
        /\ UNCHANGED << config, innerText, classList, writes, eraseNum, charsNum,
                        currentWritesIndex, origin, playLog, laps, hideCursorCalls,
                        failedErased >>

\* the first start()
Start == ~typingStarted /\ StartCall

\* start() called again after playback has begun
Restart == typingStarted /\ StartCall

\* ------------------------------------------------------------------ timer callbacks
\* the setTimeout callback: #type(text) up to the creation of the interval
TimeoutFires(t) ==
    /\ t.kind = "timeout"
    /\ classList' = toggleCursor(classList, FALSE)
    /\ timers' = Scheduled(Cleared(timers, t), Interval(t, innerText))
    /\ playLog' = Append(playLog, t.instr)
    /\ outcome' = [ op |-> "timeout", error |-> "none" ]
    /\ UNCHANGED << config, innerText, writes, eraseNum, charsNum, typingStarted,
                    currentWritesIndex, origin, starts, strayCalls, laps, hideCursorCalls,
                    failedErased >>

\* the setInterval callback while index < text.length: one character
Tick(t) ==
    /\ t.kind = "interval"
    /\ t.index # Len(t.text)
    /\ innerText' = typeChar(innerText, t.text[t.index + 1])
    /\ timers' = Scheduled(Cleared(timers, t), [t EXCEPT !.index = @ + 1])
    /\ outcome' = [ op |-> "tick", error |-> "none" ]
    /\ UNCHANGED << config, classList, writes, eraseNum, charsNum, typingStarted,
                    currentWritesIndex, origin, playLog, starts, strayCalls, laps,
                    hideCursorCalls, failedErased >>

\* the setInterval callback when index === text.length: the instruction is
\* finished; next instruction, else loop, else hide the cursor
Finish(t) ==
    LET rest == Cleared(timers, t)
        next == currentWritesIndex + 1
        branch == endOfInstruction(writes, next, config)
        r == start(writes, config.loopFrom, rest)
    IN  /\ t.kind = "interval"
        /\ t.index = Len(t.text)
        /\ branch = "loop" => laps < MaxLaps
        /\ classList' = IF branch = "hide"
                        THEN hideCursor(toggleCursor(classList, TRUE))
                        ELSE toggleCursor(classList, TRUE)
        /\ currentWritesIndex' = IF branch = "loop" THEN config.loopFrom ELSE next
        /\ typingStarted' = IF branch = "loop" THEN TRUE ELSE typingStarted
        /\ timers' = CASE branch = "next" -> Scheduled(rest, Timeout(writes, next))
                        [] branch = "loop" -> r.timers
                        [] OTHER -> rest
        /\ outcome' = [ op |-> "finish", error |-> IF branch = "loop" THEN r.error ELSE "none" ]
        /\ laps' = IF branch = "loop" THEN laps + 1 ELSE laps
        /\ hideCursorCalls' = IF branch = "hide" THEN hideCursorCalls + 1 ELSE hideCursorCalls
        /\ UNCHANGED << config, innerText, writes, eraseNum, charsNum, origin, playLog,
                        starts, strayCalls, failedErased >>

TimerFires == \E t \in BagToSet(timers) : TimeoutFires(t) \/ Tick(t) \/ Finish(t)

\* ------------------------------------------------------------------ specifications
\* the documented life cycle: build the queue, start() once, playback; public
\* calls may still arrive after start()
Fits == Len(writes') <= MaxWrites

Next ==
    \/ Write /\ Fits
    \/ Erase /\ Fits
    \/ EraseLast /\ Fits
    \/ EraseAll /\ Fits
    \/ Start
    \/ TimerFires

Spec == Init /\ [][Next]_vars

\* as Spec, and start() may be called again after playback has begun
RestartNext == Next \/ Restart

RestartSpec == Init /\ [][RestartNext]_vars

\* playback at rest: start() has returned on an empty queue, or the last
\* instruction has finished with loop off, and no timer is pending
Idle == typingStarted /\ timers = EmptyBag /\ (~config.loop \/ writes = <<>>)

\* start() called again once playback is at rest
IdleRestart == Idle /\ Restart

\* as Spec, and start() may be called again once playback is at rest
IdleNext == Next \/ IdleRestart

IdleSpec == Init /\ [][IdleNext]_vars

\* a script whose calls all succeed builds the queue and calls start() once,
\* then only the timers run; a pending timer fires eventually
Build ==
    /\ ~typingStarted
    /\ Write \/ Erase \/ EraseLast \/ EraseAll
    /\ outcome'.error = "none"
    /\ Len(writes') <= MaxScript

PlayNext == Build \/ Start \/ TimerFires

PlaySpec == Init /\ [][PlayNext]_vars /\ WF_vars(TimerFires)

\* ------------------------------------------------------------------ claims
Pending == BagToSet(timers)

Tickers == { t \in Pending : t.kind = "interval" }

\* <<0, 1, ..., n-1>>
UpTo(n) == [i \in 1..n |-> i - 1]

\* C1: once start() has been called, the started flag stays true, the queue
\* (length, texts, delays) never changes again, and every later write or erase
\* call raises the already-started error.
C1_FrozenAfterStart ==
    [][ typingStarted =>
          /\ typingStarted'
          /\ writes' = writes
          /\ (strayCalls' # strayCalls /\ outcome'.op \in {"write", "erase"})
                => outcome'.error = "AlreadyStarted" ]_vars

\* C2: with loop off and start() called once on a non-empty queue, at most one
\* timer is ever pending, the instructions begin in the order 0, 1, ..., n-1,
\* each once, an instruction begins only when no ticker is active, and
\* playback ends idle with every instruction played and no timer pending.
C2_Pre == ~config.loop /\ typingStarted /\ Len(writes) > 0

C2_Idle == timers = EmptyBag /\ playLog = UpTo(Len(writes))

C2_Inv ==
    C2_Pre =>
      /\ BagCardinality(timers) <= 1
      /\ Len(playLog) <= Len(writes)
      /\ playLog = UpTo(Len(playLog))
      /\ \A t \in Pending :
            /\ t.text = InstrAt(writes, t.instr).text
            /\ t.kind = "timeout" => t.instr = Len(playLog)
            /\ t.kind = "interval" => t.instr = Len(playLog) - 1 /\ t.index <= Len(t.text)
      /\ timers = EmptyBag => playLog = UpTo(Len(writes))

C2_Sequential == [](C2_Inv) /\ (C2_Pre ~> C2_Idle)

\* C2 witness: both instructions of a two-instruction queue played, idle
C2_Witness == C2_Pre /\ C2_Idle /\ Len(writes) = 2 /\ starts = 1

\* the visible text s after the characters cs, one per tick
RECURSIVE Typed(_, _)
Typed(s, cs) ==
    IF cs = <<>> THEN s
    ELSE IF Head(cs) = "\r"
         THEN Typed(SubSeq(s, 1, Len(s) - 1), Tail(cs))
         ELSE Typed(s \o <<Head(cs)>>, Tail(cs))

\* C3: while an instruction with text t plays on visible text s, after k ticks
\* the visible text is s with the first k characters of t applied in order: a
\* normal character appended, an erase marker removing one trailing character.
C3_TickByTick ==
    \A t \in Tickers :
        /\ t.index <= Len(t.text)
        /\ innerText = Typed(t.base, SubSeq(t.text, 1, t.index))

\* C3 witness: erasing 2 from "Hi", after the first tick
C3_Witness ==
    \E t \in Tickers :
        /\ t.base = <<"H", "i">>
        /\ t.text = <<"\r", "\r">>
        /\ t.index = 1
        /\ innerText = <<"H">>

\* the expected play log of a looping queue of n instructions: 0..n-1, then
\* from..n-1 again and again
LoopLog(n, from, len) ==
    [j \in 1..len |-> IF j <= n THEN j - 1 ELSE from + ((j - n - 1) % (n - from))]

\* how often instruction i has begun
Plays(i) == Cardinality({ j \in 1..Len(playLog) : playLog[j] = i })

\* C4: with loop on, a non-empty queue and loopFrom inside it, playback never
\* goes idle, runs the queue once from 0 and then restarts at loopFrom after
\* every pass: instructions below loopFrom play once, the others once per
\* pass, and every pass the model allows (MaxLaps restarts) is completed.
C4_Pre == config.loop /\ typingStarted /\ HasInstr(writes, config.loopFrom)

C4_Inv ==
    C4_Pre =>
      /\ BagCardinality(timers) = 1
      /\ playLog = LoopLog(Len(writes), config.loopFrom, Len(playLog))
      /\ \A i \in 0..(config.loopFrom - 1) : Plays(i) <= 1
      /\ outcome.error = "none"

C4_AllLaps ==
    /\ laps = MaxLaps
    /\ \A i \in 0..(Len(writes) - 1) :
          Plays(i) = IF i < config.loopFrom THEN 1 ELSE MaxLaps + 1

C4_Loops == [](C4_Inv) /\ (C4_Pre ~> C4_AllLaps)

\* C4 witness: a two-instruction queue looping from instruction 1 has
\* restarted there and finished the pass
C4_Witness ==
    /\ C4_Pre /\ C4_AllLaps
    /\ Len(writes) = 2 /\ config.loopFrom = 1
    /\ playLog[3] = 1

\* C5: with loop off and hideCursorOnEnd on, hideCursor() runs exactly when
\* the last instruction of a non-empty queue finishes: never before every
\* instruction has played, once, and with no timer pending from then on.
C5_Pre == ~config.loop /\ config.hideCursorOnEnd /\ Len(writes) > 0

C5_HiddenOnceAtEnd ==
    C5_Pre =>
      /\ hideCursorCalls <= 1
      /\ "hide-cursor" \in classList <=> hideCursorCalls = 1
      /\ hideCursorCalls = 1 <=> (typingStarted /\ timers = EmptyBag)
      /\ hideCursorCalls = 1 =>
            playLog = UpTo(Len(writes)) /\ currentWritesIndex = Len(writes)

\* C5 witness: the class is on after a two-instruction queue has played
C5_Witness ==
    /\ C5_Pre
    /\ "hide-cursor" \in classList
    /\ Len(writes) = 2
    /\ outcome.op = "finish"

\* number of active per-character tickers
TickerCount == BagCardinality([t \in Tickers |-> timers[t]])

\* C6: at most one per-character ticker is active at any moment, whatever the
\* public calls (start() more than once included) and the timer interleaving.
C6_OneTicker == TickerCount <= 1

\* C7: no timer callback of playback raises an error.
C7_NoPlaybackError ==
    outcome.op \in {"timeout", "tick", "finish"} => outcome.error = "none"

\* sum of the text lengths of the instructions of ws whose origin is in ops
RECURSIVE QueuedBy(_, _, _)
QueuedBy(ws, og, ops) ==
    IF ws = <<>> THEN 0
    ELSE (IF Head(og) \in ops THEN Len(Head(ws).text) ELSE 0) + QueuedBy(Tail(ws), Tail(og), ops)

\* characters queued by write calls
Written(ws, og) == QueuedBy(ws, og, {"write"})

\* characters scheduled for erase
Erased(ws, og) == QueuedBy(ws, og, {"erase", "eraseLast", "eraseAll"})

\* C8: eraseAll before start() (no earlier call having failed) appends one
\* erase instruction whose count is (visible text length) + (characters
\* queued by write calls) - (characters already scheduled for erase).
C8_EraseAllCount ==
    [][ (~typingStarted /\ strayCalls = 0 /\ outcome'.op = "eraseAll") =>
          /\ Len(writes') = Len(writes) + 1
          /\ SubSeq(writes', 1, Len(writes)) = writes
          /\ Len(writes'[Len(writes')].text)
                = Len(innerText) + Written(writes, origin) - Erased(writes, origin) ]_vars

\* C9: when write, erase and eraseLast calls are followed by one eraseAll, all
\* before start(), with loop off, the visible text is empty at the moment the
\* eraseAll instruction has finished playing.
C9_EraseAllClears ==
    ( /\ ~config.loop
      /\ strayCalls = 0
      /\ origin # <<>>
      /\ origin[Len(origin)] = "eraseAll"
      /\ \A i \in 1..(Len(origin) - 1) : origin[i] # "eraseAll"
      /\ outcome.op = "finish"
      /\ currentWritesIndex = Len(writes) )
    => innerText = <<>>

\* before playback, the queue built by write and erase calls that all succeeded
OnlyWriteErase ==
    /\ ~typingStarted
    /\ strayCalls = 0
    /\ \A i \in 1..Len(origin) : origin[i] \in {"write", "erase"}

\* C10 as stated: before playback, after write and erase calls, the tracked
\* character count is (lengths of the written texts) - (erased counts).
C10_CountMinusErased ==
    OnlyWriteErase => charsNum = Written(writes, origin) - Erased(writes, origin)

\* C10 as amended: before playback the tracked character count is the sum of
\* the lengths of the written texts (a successful erase leaves it as it was)
\* and the erase count is the sum of the erased counts; an erase call that
\* raises an error has still moved both counters by its count.
C10_CountIsWritten ==
    ~typingStarted =>
      /\ charsNum = Written(writes, origin) - failedErased
      /\ eraseNum = Erased(writes, origin) + failedErased

\* C10 witness: a write of 3 followed by an erase of 2
C10_Witness ==
    /\ OnlyWriteErase
    /\ outcome = [ op |-> "erase", error |-> "none" ]
    /\ origin = <<"write", "erase">>
    /\ charsNum = 3
    /\ eraseNum = 2

\* C11: eraseLast on an empty queue raises the no-prior-write error and
\* appends nothing; on a non-empty queue before start() it appends exactly one
\* erase instruction whose count is the text length of the last instruction.
C11_EraseLast ==
    [][ (~typingStarted /\ outcome'.op = "eraseLast") =>
          IF writes = <<>>
          THEN /\ outcome'.error = "NoPriorWrite"
               /\ writes' = writes
          ELSE /\ outcome'.error = "none"
               /\ Len(writes') = Len(writes) + 1
               /\ SubSeq(writes', 1, Len(writes)) = writes
               /\ writes'[Len(writes')].text
                     = Repeat(CR, Len(writes[Len(writes)].text)) ]_vars

\* C11 witness: eraseLast after a write of length 3 has queued an erase of 3
C11_Witness ==
    /\ ~typingStarted
    /\ outcome = [ op |-> "eraseLast", error |-> "none" ]
    /\ Len(writes) = 2
    /\ writes[1].text = <<"a", "b", "c">>
    /\ writes[2].text = <<"\r", "\r", "\r">>

\* C12: start() on an empty queue raises nothing, schedules no timer and
\* changes nothing but the started flag, whatever the configuration.
C12_StartOnEmpty ==
    [][ (outcome'.op = "start" /\ writes = <<>>) =>
          /\ outcome'.error = "none"
          /\ typingStarted'
          /\ timers' = EmptyBag
          /\ UNCHANGED << writes, eraseNum, charsNum, currentWritesIndex, innerText,
                          classList, config >> ]_vars

\* C12 witness: start() has returned on an empty queue with loop and
\* hideCursorOnEnd both on
C12_Witness ==
    /\ outcome = [ op |-> "start", error |-> "none" ]
    /\ writes = <<>>
    /\ typingStarted
    /\ config.loop /\ config.hideCursorOnEnd
    /\ timers = EmptyBag
    /\ classList = {}

\* C13 as stated: the `typing` class is absent from the element while the
\* characters of an instruction are being animated.
C13_TypingOff == Tickers # {} => "typing" \notin classList

\* the steps that move the `typing` class: entering an instruction switches it
\* on, only that switches it on, and only the tick that detects the end of an
\* instruction switches it off
C13_ClassSteps ==
    [][ /\ outcome'.op = "timeout" => "typing" \in classList'
        /\ ("typing" \notin classList /\ "typing" \in classList') => outcome'.op = "timeout"
        /\ ("typing" \in classList /\ "typing" \notin classList') => outcome'.op = "finish"
      ]_vars

\* C13 as amended: the `typing` class is switched on when an instruction is
\* entered and switched off only by the tick that detects the end of an
\* instruction, whatever the public calls; with start() called once it is
\* present on the element while the characters of an instruction are animated.
C13_TypingOn ==
    /\ [](starts <= 1 => (Tickers # {} => "typing" \in classList))
    /\ C13_ClassSteps

\* C13 witness: the first character of "Hi" has been typed, the second not yet
C13_Witness ==
    /\ starts = 1
    /\ "typing" \in classList
    /\ \E t \in Tickers : t.text = <<"H", "i">> /\ t.index = 1

\* C14: once playback is at rest (queue exhausted with loop off, or start()
\* returned on an empty queue), no public call and no timer changes the
\* visible text, the classes or the cursor index, or schedules a timer.
C14_IdleAbsorbing ==
    [][ Idle => /\ innerText' = innerText
                /\ classList' = classList
                /\ currentWritesIndex' = currentWritesIndex
                /\ timers' = EmptyBag
                /\ Idle' ]_vars

\* C14 witness: start() called again after a two-instruction queue has played
C14_Witness ==
    /\ Idle
    /\ starts = 2
    /\ outcome.op = "start"
    /\ Len(writes) = 2
    /\ playLog = UpTo(2)
    /\ currentWritesIndex = 2

\* C15: with start() called once, the `typing` class is on the element
\* exactly when a per-character ticker is active (from the entry of an
\* instruction, empty text included, to the tick that detects its end).
C15_TypingIffTicker == ("typing" \in classList) <=> (Tickers # {})

\* C15 witness: the ticker of an instruction with empty text is active
C15_Witness ==
    /\ "typing" \in classList
    /\ \E t \in Tickers : t.text = <<>>

\* C16: the permanent hidden-cursor class is never added when loop is enabled
\* (hideCursorOnEnd enabled or not), nor when loop and hideCursorOnEnd are
\* both disabled.
C16_LoopBeforeHide ==
    (config.loop \/ ~config.hideCursorOnEnd) =>
        "hide-cursor" \notin classList /\ hideCursorCalls = 0

\* C16 witness: with loop and hideCursorOnEnd both on, the queue has been
\* exhausted and playback has looped
C16_Witness ==
    /\ config.loop /\ config.hideCursorOnEnd
    /\ outcome = [ op |-> "finish", error |-> "none" ]
    /\ laps = 1
    /\ currentWritesIndex = config.loopFrom
    /\ "hide-cursor" \notin classList

\* C17: a write, erase, eraseLast or eraseAll call rejected because playback
\* has begun leaves the queue, both counters and the cursor index as they were.
C17_RejectedUnchanged ==
    [][ (typingStarted /\ outcome'.error = "AlreadyStarted") =>
          /\ writes' = writes
          /\ charsNum' = charsNum
          /\ eraseNum' = eraseNum
          /\ currentWritesIndex' = currentWritesIndex ]_vars

\* C18: before start(), after write, erase, eraseLast and eraseAll calls that
\* all succeeded, eraseAll raises no error and appends exactly one instruction.
C18_EraseAllSucceeds ==
    [][ (~typingStarted /\ strayCalls = 0 /\ outcome'.op = "eraseAll") =>
          /\ outcome'.error = "none"
          /\ Len(writes') = Len(writes) + 1 ]_vars

\* C19: with loopFrom inside the queue when looping, the cursor index lies in
\* 0..(number of queued instructions) and every active ticker plays the
\* instruction the index designates, whatever the public calls (start() more
\* than once included).
C19_Pre == (config.loop /\ typingStarted) => HasInstr(writes, config.loopFrom)

C19_IndexInQueue ==
    C19_Pre =>
      /\ currentWritesIndex \in 0..Len(writes)
      /\ \A t \in Tickers : t.instr = currentWritesIndex

====
